---------------------------- MODULE Spec2Model ----------------------------
(***************************************************************************)
(* Bank node of PSS_Projekt (bank_node.py): the persisted ledger BankData, *)
(* the command dispatcher BankServer.process_command and the connection    *)
(* loop BankRequestHandler.handle, one thread per connection.              *)
(***************************************************************************)
EXTENDS Integers, Sequences, FiniteSets, Bags, TLC

(* ------------------------------ bounds -------------------------------- *)
\* lines the clients send in all
MaxLines == 2
\* the connections (one handler thread each)
Sessions == {1, 2}

(* ------------------------- program constants -------------------------- *)
FirstCounter == 9999
MinAccount == 10000
MaxAccount == 99999
MaxOctet == 255
MaxOctetDigits == 3
IpOctets == 4

\* the owner field of a free RLock
NoOwner == 0

(* ------------------------------ texts --------------------------------- *)
\* an integer literal token as int() sees it: num = FALSE when int() raises
NumTok(v) == [num |-> TRUE, val |-> v]
NanTok == [num |-> FALSE, val |-> 0]

\* one dot-separated piece of an address: w digits with value v; w = 0 when
\* the piece is not made of digits
Octet(w, v) == [w |-> w, v |-> v]

\* the text of this node's address, --ip 10.0.0.5
bank_ip == <<Octet(2, 10), Octet(1, 0), Octet(1, 0), Octet(1, 5)>>
\* 10.0.0.6: another bank
OtherIp == <<Octet(2, 10), Octet(1, 0), Octet(1, 0), Octet(1, 6)>>
\* 010.0.0.5: the same octets as bank_ip, another text
PaddedIp == <<Octet(3, 10), Octet(1, 0), Octet(1, 0), Octet(1, 5)>>
\* 10.0.0.256 and 10.0.5: not addresses
BigOctetIp == <<Octet(2, 10), Octet(1, 0), Octet(1, 0), Octet(3, 256)>>
ShortIp == <<Octet(2, 10), Octet(1, 0), Octet(1, 5)>>

is_valid_ip(ip) ==
    /\ Len(ip) = IpOctets
    /\ \A i \in 1..Len(ip) : ip[i].w \in 1..MaxOctetDigits
    /\ \A i \in 1..Len(ip) : ip[i].v \in 0..MaxOctet

\* str(account_number): the key of the accounts dict
Str(n) == ToString(n)

\* an account spec token: nparts pieces around '/', the first acct, the second ip
SpecTok(nparts, acct, ip) == [nparts |-> nparts, acct |-> acct, ip |-> ip]

ERR_ACCOUNT_FORMAT == "Format cisla uctu neni spravny."
ERR_IP_FORMAT == "Format IP adresy neni spravny."

\* the range test on the account number left out
parse_account_spec_unranged(spec) ==
    IF spec.nparts # 2 \/ ~spec.acct.num
    THEN [ok |-> FALSE, account_number |-> 0, ip |-> <<>>, err |-> ERR_ACCOUNT_FORMAT]
    ELSE IF ~is_valid_ip(spec.ip)
    THEN [ok |-> FALSE, account_number |-> 0, ip |-> <<>>, err |-> ERR_IP_FORMAT]
    ELSE [ok |-> TRUE, account_number |-> spec.acct.val, ip |-> spec.ip, err |-> ""]
\* (account_number, ip, err); ok = FALSE stands for (None, None, err)
parse_account_spec(spec) ==
    IF spec.nparts # 2
    THEN [ok |-> FALSE, account_number |-> 0, ip |-> <<>>, err |-> ERR_ACCOUNT_FORMAT]
    ELSE IF ~spec.acct.num
    THEN [ok |-> FALSE, account_number |-> 0, ip |-> <<>>, err |-> ERR_ACCOUNT_FORMAT]
    ELSE IF spec.acct.val < MinAccount \/ spec.acct.val > MaxAccount
    THEN [ok |-> FALSE, account_number |-> 0, ip |-> <<>>, err |-> ERR_ACCOUNT_FORMAT]
    ELSE IF ~is_valid_ip(spec.ip)
    THEN [ok |-> FALSE, account_number |-> 0, ip |-> <<>>, err |-> ERR_IP_FORMAT]
    ELSE [ok |-> TRUE, account_number |-> spec.acct.val, ip |-> spec.ip, err |-> ""]


(* ------------------------------ lines --------------------------------- *)
\* a line after decode and strip, split on whitespace: the verb, the number
\* of tokens after it, the second token read as an account spec and the
\* third read as an amount
Line(verb, nargs, spec, amt) == [verb |-> verb, nargs |-> nargs, spec |-> spec, amt |-> amt]

NoSpec == SpecTok(1, NanTok, <<>>)

AccountNumbers == {MinAccount, MinAccount + 1}

GoodSpecs == {SpecTok(2, NumTok(n), bank_ip) : n \in AccountNumbers}
ForeignSpecs ==
    {SpecTok(2, NumTok(MinAccount), OtherIp), SpecTok(2, NumTok(MinAccount), PaddedIp),
     SpecTok(2, NumTok(MinAccount + 1), OtherIp)}
BadSpecs ==
    {SpecTok(1, NumTok(MinAccount), <<>>), SpecTok(3, NumTok(MinAccount), bank_ip),
     SpecTok(2, NanTok, bank_ip), SpecTok(2, NumTok(MinAccount - 1), bank_ip),
     SpecTok(2, NumTok(MaxAccount + 1), bank_ip), SpecTok(2, NumTok(MinAccount), BigOctetIp),
     SpecTok(2, NumTok(MinAccount), ShortIp)}
Specs == GoodSpecs \cup ForeignSpecs \cup BadSpecs

\* amount tokens: a negative one, zero, a positive one, and one int() rejects
Amounts == {NumTok(-1), NumTok(0), NumTok(1), NanTok}

Verbs == {"BC", "AC", "AD", "AW", "AB", "AR", "BA", "BN"}

Lines ==
    {Line(v, 0, NoSpec, NanTok) : v \in Verbs \cup {"XY", "ac"}}
    \cup {Line(v, 1, sp, NanTok) : v \in {"AB", "AR"}, sp \in Specs}
    \cup {Line(v, 2, sp, a) : v \in {"AD", "AW"}, sp \in GoodSpecs \cup ForeignSpecs, a \in Amounts}
    \cup {Line(v, 2, sp, NumTok(1)) : v \in {"AD", "AW"}, sp \in BadSpecs}
    \cup {Line(v, 1, SpecTok(2, NumTok(MinAccount), bank_ip), NanTok) : v \in {"BC", "AC", "AD", "AW", "BA", "BN"}}
    \cup {Line(v, 2, SpecTok(2, NumTok(MinAccount), bank_ip), NumTok(0)) : v \in {"AB", "AR"}}

\* a line with nothing on it after strip: split() gives no tokens
EmptyLine == Line("", -1, NoSpec, NanTok)

\* tokens[0].upper()
Upper(v) == IF v = "ac" THEN "AC" ELSE v

(* ----------------------------- responses ------------------------------ *)
Resp(tag, num, msg) == [tag |-> tag, num |-> num, msg |-> msg]
NoResp == Resp("", 0, "")
ER(msg) == Resp("ER", 0, msg)

ERR_CAPACITY == "Nase banka nyni neumoznuje zalozeni noveho uctu."
ERR_NO_ACCOUNT == "Bankovni ucet neexistuje."
ERR_FUNDS == "Neni dostatek financnich prostredku."
ERR_NOT_EMPTY == "Nelze smazat bankovni ucet na kterem jsou finance."
ERR_BANK == "Banka neodpovida."
ERR_AMOUNT == "cislo bankovniho uctu a castka neni ve spravnem formatu."
ERR_UNKNOWN == "Neznamy prikaz."
ERR_EMPTY == "Prazdny prikaz."
ERR_APP == "Chyba v aplikaci, prosim zkuste to pozdeji."
ERR_FORMAT(cmd) == "Prikaz " \o cmd \o " ma spatny format."

\* a Ledger call and what it returns
Op(name, account_number, amount) == [name |-> name, account_number |-> account_number, amount |-> amount]
NoOp == Op("", 0, 0)
\* none = TRUE stands for None in the value position, err = "" for None in the
\* error position
Ret(none, val, err) == [none |-> none, val |-> val, err |-> err]
NoRet == Ret(TRUE, 0, "")

(* ---------------------------- dispatcher ------------------------------ *)
Answer(resp) == [call |-> FALSE, op |-> NoOp, resp |-> resp]
Call(o) == [call |-> TRUE, op |-> o, resp |-> NoResp]

\* the amount < 0 test left out
amount_ok_signed(amt) == amt.num
\* int(amount_str) and the amount < 0 test: FALSE when the except is taken
amount_ok(amt) == amt.num /\ ~(amt.val < 0)

\* the bank test left out
bank_matches_any(ip) == TRUE
\* ip_part != self.bank_ip compares the two texts
bank_matches(ip) == ip = bank_ip

\* the part of process_command that runs before the Ledger is called: either
\* the response, or the Ledger call to make
process_command(ln) ==
    LET cmd == Upper(ln.verb)
        ntok == 1 + ln.nargs
        p == parse_account_spec(ln.spec)
    IN  CASE ntok = 0 -> Answer(ER(ERR_EMPTY))
          [] cmd = "BC" ->
                IF ntok # 1 THEN Answer(ER(ERR_FORMAT(cmd))) ELSE Answer(Resp("BC", 0, ""))
          [] cmd = "AC" ->
                IF ntok # 1 THEN Answer(ER(ERR_FORMAT(cmd)))
                ELSE Call(Op("create_account", 0, 0))
          [] cmd \in {"AD", "AW"} ->
                IF ntok # 3 THEN Answer(ER(ERR_FORMAT(cmd)))
                ELSE IF ~p.ok THEN Answer(ER(p.err))
                ELSE IF ~bank_matches(p.ip) THEN Answer(ER(ERR_BANK))
                ELSE IF ~amount_ok(ln.amt) THEN Answer(ER(ERR_AMOUNT))
                ELSE Call(Op(IF cmd = "AD" THEN "deposit" ELSE "withdraw",
                             p.account_number, ln.amt.val))
          [] cmd \in {"AB", "AR"} ->
                IF ntok # 2 THEN Answer(ER(ERR_FORMAT(cmd)))
                ELSE IF ~p.ok THEN Answer(ER(p.err))
                ELSE IF ~bank_matches(p.ip) THEN Answer(ER(ERR_BANK))
                ELSE Call(Op(IF cmd = "AB" THEN "get_balance" ELSE "remove_account",
                             p.account_number, 0))
          [] cmd = "BA" ->
                IF ntok # 1 THEN Answer(ER(ERR_FORMAT(cmd)))
                ELSE Call(Op("total_amount", 0, 0))
          [] cmd = "BN" ->
                IF ntok # 1 THEN Answer(ER(ERR_FORMAT(cmd)))
                ELSE Call(Op("number_of_clients", 0, 0))
          [] OTHER -> Answer(ER(ERR_UNKNOWN))

\* the part of process_command that runs after the Ledger call returned r
render(o, r) ==
    CASE o.name = "create_account" ->
            IF r.err # "" THEN ER(r.err) ELSE Resp("AC", r.val, "")
      [] o.name = "deposit" -> IF r.err # "" THEN ER(r.err) ELSE Resp("AD", 0, "")
      [] o.name = "withdraw" -> IF r.err # "" THEN ER(r.err) ELSE Resp("AW", 0, "")
      [] o.name = "get_balance" ->
            IF r.none THEN ER(ERR_NO_ACCOUNT) ELSE Resp("AB", r.val, "")
      [] o.name = "remove_account" -> IF r.err # "" THEN ER(r.err) ELSE Resp("AR", 0, "")
      [] o.name = "total_amount" -> Resp("BA", r.val, "")
      [] OTHER -> Resp("BN", r.val, "")

(* ------------------------------ ledger -------------------------------- *)
EmptyAccounts == [k \in {} |-> 0]

\* the persistence file: absent, not parsable, or the JSON text of a save
MissingFile == [kind |-> "missing", last_account |-> 0, accounts |-> {}]
CorruptFile == [kind |-> "corrupt", last_account |-> 0, accounts |-> {}]

\* json.dump({"last_account": .., "accounts": ..}): the members of the
\* accounts object are key/value pairs
json_dump(la, accts) ==
    [kind |-> "json", last_account |-> la,
     accounts |-> {<<k, accts[k]>> : k \in DOMAIN accts}]

\* the counter of the file ignored
load_counter_reset(f) ==
    IF f.kind = "json"
    THEN [last_account |-> FirstCounter,
          accounts |-> [k \in {m[1] : m \in f.accounts} |->
                            (CHOOSE m \in f.accounts : m[1] = k)[2]]]
    ELSE [last_account |-> FirstCounter, accounts |-> EmptyAccounts]
\* the except leaves the fields as the failed parse left them
load_no_reset(f) ==
    IF f.kind = "json"
    THEN [last_account |-> f.last_account,
          accounts |-> [k \in {m[1] : m \in f.accounts} |->
                            (CHOOSE m \in f.accounts : m[1] = k)[2]]]
    ELSE IF f.kind = "missing"
    THEN [last_account |-> FirstCounter, accounts |-> EmptyAccounts]
    ELSE [last_account |-> f.last_account, accounts |-> EmptyAccounts]
\* BankData.load: the (last_account, accounts) it leaves
load(f) ==
    IF f.kind = "json"
    THEN [last_account |-> f.last_account,
          accounts |-> [k \in {m[1] : m \in f.accounts} |->
                            (CHOOSE m \in f.accounts : m[1] = k)[2]]]
    ELSE [last_account |-> FirstCounter, accounts |-> EmptyAccounts]

\* the files a node can find when it starts: none, one cut short by a failed
\* write, and one saved by a node that has issued all numbers but the last
\* and has closed all accounts but the first two
InitFiles ==
    {MissingFile, CorruptFile,
     json_dump(MaxAccount - 1,
               [k \in {Str(MinAccount), Str(MinAccount + 1)} |->
                    IF k = Str(MinAccount) THEN 1 ELSE 0])}

\* self.accounts.get(key, None)
get_balance(accts, n) ==
    IF Str(n) \in DOMAIN accts THEN Ret(FALSE, accts[Str(n)], "") ELSE NoRet

RECURSIVE SumOver(_, _)
SumOver(accts, keys) ==
    IF keys = {} THEN 0
    ELSE LET k == CHOOSE x \in keys : TRUE
         IN  accts[k] + SumOver(accts, keys \ {k})

\* the number of accounts taken for their total
total_amount_as_count(accts) == Cardinality(DOMAIN accts)
\* sum(self.accounts.values())
total_amount(accts) == SumOver(accts, DOMAIN accts)
\* len(self.accounts)
number_of_clients(accts) == Cardinality(DOMAIN accts)

(* --------------------- the sequential ledger -------------------------- *)
Ledger(la, accts) == [last_account |-> la, accounts |-> accts]
Outcome(st, r) == [st |-> st, ret |-> r]

\* one BankData method run alone from state st: the state it leaves and what
\* it returns
seq_call(st, o) ==
    LET key == Str(o.account_number)
        has == key \in DOMAIN st.accounts
    IN  CASE o.name = "create_account" ->
                IF st.last_account >= MaxAccount
                THEN Outcome(st, Ret(TRUE, 0, ERR_CAPACITY))
                ELSE Outcome(
                        Ledger(st.last_account + 1,
                               [k \in DOMAIN st.accounts \cup {Str(st.last_account + 1)} |->
                                    IF k = Str(st.last_account + 1) THEN 0 ELSE st.accounts[k]]),
                        Ret(FALSE, st.last_account + 1, ""))
          [] o.name = "deposit" ->
                IF ~has THEN Outcome(st, Ret(TRUE, 0, ERR_NO_ACCOUNT))
                ELSE Outcome(Ledger(st.last_account,
                                    [st.accounts EXCEPT ![key] = @ + o.amount]), NoRet)
          [] o.name = "withdraw" ->
                IF ~has THEN Outcome(st, Ret(TRUE, 0, ERR_NO_ACCOUNT))
                ELSE IF st.accounts[key] < o.amount THEN Outcome(st, Ret(TRUE, 0, ERR_FUNDS))
                ELSE Outcome(Ledger(st.last_account,
                                    [st.accounts EXCEPT ![key] = @ - o.amount]), NoRet)
          [] o.name = "get_balance" -> Outcome(st, get_balance(st.accounts, o.account_number))
          [] o.name = "remove_account" ->
                IF ~has THEN Outcome(st, Ret(TRUE, 0, ERR_NO_ACCOUNT))
                ELSE IF st.accounts[key] # 0 THEN Outcome(st, Ret(TRUE, 0, ERR_NOT_EMPTY))
                ELSE Outcome(Ledger(st.last_account,
                                    [k \in DOMAIN st.accounts \ {key} |-> st.accounts[k]]),
                             NoRet)
          [] o.name = "total_amount" -> Outcome(st, Ret(FALSE, total_amount(st.accounts), ""))
          [] OTHER -> Outcome(st, Ret(FALSE, number_of_clients(st.accounts), ""))

(* ------------------------------ state --------------------------------- *)
VARIABLES
    last_account,   \* BankData.last_account
    accounts,       \* BankData.accounts: str(number) -> balance
    file,           \* the contents of BankData.data_file
    lock,           \* BankData.lock, a threading.RLock: owner and depth
    pc,             \* where each handler thread is
    op,             \* the Ledger call each thread is making
    tmp,            \* the local value of the statement a thread is in
    ret,            \* what the Ledger call returned
    resp,           \* the response line process_command returned
    nlines,         \* lines read from all connections
    ncmd,           \* command lines each connection has dispatched
    out,            \* for each response line written, the command it answers
    issued,         \* the numbers create_account returned, in lock order
    removed,        \* the numbers remove_account deleted
    ref,            \* the sequential ledger, run in lock order
    expect,         \* what the sequential ledger returns to each thread
    pre,            \* the ledger as each thread found it on taking the lock
    lastSaveOk,     \* the last save() wrote the whole file
    loaded,         \* the ledger as load() left it
    foreign,        \* the command a thread handles names another bank
    malformed,      \* the command a thread handles has a format error
    applied,        \* the amounts deposit returned success for, less those of withdraw
    acked,          \* the amounts of the AD responses written, less those of the AW responses
    delta           \* the amount the response a thread is to write stands for

ledger == <<last_account, accounts, file>>
hist == <<issued, removed, ref, expect, pre, lastSaveOk, loaded>>
ghost == <<hist, foreign, malformed, applied, acked, delta>>
conn == <<nlines, ncmd, out>>
vars == <<last_account, accounts, file, lock, pc, op, tmp, ret, resp, nlines, ncmd, out,
          issued, removed, ref, expect, pre, lastSaveOk, loaded, foreign, malformed, applied, acked, delta>>

FreeLock == [owner |-> NoOwner, count |-> 0]
NoPre == [taken |-> FALSE, last_account |-> 0, accounts |-> EmptyAccounts, file |-> MissingFile]

Init ==
    /\ \E f \in InitFiles :
          /\ file = f
          /\ last_account = load(f).last_account
          /\ accounts = load(f).accounts
          /\ ref = Ledger(load(f).last_account, load(f).accounts)
          /\ loaded = Ledger(load(f).last_account, load(f).accounts)
    /\ lock = FreeLock
    /\ pc = [s \in Sessions |-> "read"]
    /\ op = [s \in Sessions |-> NoOp]
    /\ tmp = [s \in Sessions |-> 0]
    /\ ret = [s \in Sessions |-> NoRet]
    /\ resp = [s \in Sessions |-> NoResp]
    /\ nlines = 0
    /\ ncmd = [s \in Sessions |-> 0]
    /\ out = [s \in Sessions |-> <<>>]
    /\ issued = <<>>
    /\ removed = {}
    /\ expect = [s \in Sessions |-> NoRet]
    /\ pre = [s \in Sessions |-> NoPre]
    /\ lastSaveOk = TRUE
    /\ foreign = [s \in Sessions |-> FALSE]
    /\ malformed = [s \in Sessions |-> FALSE]
    /\ applied = 0
    /\ acked = 0
    /\ delta = [s \in Sessions |-> 0]

(* ----------------------------- the lock ------------------------------- *)
\* a Lock in place of the RLock: its holder cannot take it again
can_acquire_not_reentrant(lk, s) == lk.owner = NoOwner
\* a lock that never blocks
can_acquire_always(lk, s) == TRUE
\* a lock that is not re-entrant: the inner release frees it
release_all(lk) == FreeLock
\* RLock.acquire returns at once for the owner and when the lock is free
can_acquire(lk, s) == lk.owner = NoOwner \/ lk.owner = s
acquire(lk, s) == [owner |-> s, count |-> IF lk.owner = s THEN lk.count + 1 ELSE 1]
release(lk) == IF lk.count <= 1 THEN FreeLock ELSE [lk EXCEPT !.count = @ - 1]

(* ------------------------ the connection loop ------------------------- *)
\* AD, AW, AB or AR with the right number of tokens and an account spec that
\* parses but names another address
ForeignLine(ln) ==
    /\ Upper(ln.verb) \in {"AD", "AW", "AB", "AR"}
    /\ 1 + ln.nargs = (IF Upper(ln.verb) \in {"AD", "AW"} THEN 3 ELSE 2)
    /\ parse_account_spec(ln.spec).ok
    /\ ln.spec.ip # bank_ip

\* a line with one of the eight verbs that has the wrong number of tokens, an
\* account spec that does not parse, or an amount that is not a number or
\* is negative
MalformedLine(ln) ==
    LET cmd == Upper(ln.verb)
        ntok == 1 + ln.nargs
        wellformed ==
            /\ ln.spec.nparts = 2
            /\ ln.spec.acct.num /\ ln.spec.acct.val \in MinAccount..MaxAccount
            /\ Len(ln.spec.ip) = IpOctets
            /\ \A i \in 1..Len(ln.spec.ip) :
                  /\ ln.spec.ip[i].w \in 1..MaxOctetDigits
                  /\ ln.spec.ip[i].v \in 0..MaxOctet
    IN  /\ cmd \in Verbs
        /\ IF cmd \in {"AD", "AW"}
           THEN ntok # 3 \/ ~wellformed \/ ~(ln.amt.num /\ ln.amt.val >= 0)
           ELSE IF cmd \in {"AB", "AR"}
           THEN ntok # 2 \/ ~wellformed
           ELSE ntok # 1

Goto(s, l) == pc' = [pc EXCEPT ![s] = l]
At(s, l) == pc[s] = l
Key(s) == Str(op[s].account_number)
HasKey(s) == Key(s) \in DOMAIN accounts

\* handle() returns: the connection and what was read and written on it are gone
Close(s) ==
    /\ Goto(s, "closed")
    /\ ncmd' = [ncmd EXCEPT ![s] = 0]
    /\ out' = [out EXCEPT ![s] = <<>>]

\* rfile.readline() returns a line that is a command after decode and strip;
\* process_command runs up to its Ledger call or to its own response
ReadCommand(s, ln) ==
    /\ At(s, "read")
    /\ nlines < MaxLines
    /\ nlines' = nlines + 1
    /\ ncmd' = [ncmd EXCEPT ![s] = @ + 1]
    /\ LET d == process_command(ln)
       IN  IF d.call
           THEN /\ Goto(s, "call")
                /\ op' = [op EXCEPT ![s] = d.op]
                /\ resp' = resp
           ELSE /\ Goto(s, "write")
                /\ resp' = [resp EXCEPT ![s] = d.resp]
                /\ op' = op
    /\ foreign' = [foreign EXCEPT ![s] = ForeignLine(ln)]
    /\ malformed' = [malformed EXCEPT ![s] = MalformedLine(ln)]
    /\ UNCHANGED <<ledger, lock, tmp, ret, out, hist, applied, acked, delta>>

\* the empty line is handed to process_command like any other
ReadEmpty_dispatches(s) == ReadCommand(s, EmptyLine)
\* the line is empty after strip: continue
ReadEmpty(s) ==
    /\ At(s, "read")
    /\ nlines < MaxLines
    /\ nlines' = nlines + 1
    /\ UNCHANGED <<ledger, lock, pc, op, tmp, ret, resp, ncmd, out, ghost>>

\* the timeout is caught and the loop goes on reading
ReadEnd_keeps_reading(s) ==
    /\ At(s, "read")
    /\ UNCHANGED vars
\* readline() returns nothing, times out, or the line does not decode: break
ReadEnd(s) ==
    /\ At(s, "read")
    /\ Close(s)
    /\ UNCHANGED <<ledger, lock, op, tmp, ret, resp, nlines, ghost>>

\* the response is built and never written
sent_nothing(o, n) == o
\* what the client has received after wfile.write(response_line) and flush:
\* one more line, the answer to command n
sent(o, n) == Append(o, n)

\* wfile.write and flush, then the loop reads again
WriteResponse(s) ==
    /\ At(s, "write")
    /\ out' = [out EXCEPT ![s] = sent(@, ncmd[s])]
    /\ resp' = [resp EXCEPT ![s] = NoResp]
    /\ foreign' = [foreign EXCEPT ![s] = FALSE]
    /\ malformed' = [malformed EXCEPT ![s] = FALSE]
    /\ acked' = acked + delta[s]
    /\ delta' = [delta EXCEPT ![s] = 0]
    /\ Goto(s, "read")
    /\ UNCHANGED <<ledger, lock, op, tmp, ret, nlines, ncmd, hist, applied>>

\* wfile.write raises: break
WriteFail(s) ==
    /\ At(s, "write")
    /\ resp' = [resp EXCEPT ![s] = NoResp]
    /\ foreign' = [foreign EXCEPT ![s] = FALSE]
    /\ malformed' = [malformed EXCEPT ![s] = FALSE]
    /\ delta' = [delta EXCEPT ![s] = 0]
    /\ Close(s)
    /\ UNCHANGED <<ledger, lock, op, tmp, ret, nlines, hist, applied, acked>>

(* ------------------------- the Ledger methods ------------------------- *)
FirstStep(name) ==
    CASE name = "create_account" -> "c_check"
      [] name = "deposit" -> "d_check"
      [] name = "withdraw" -> "w_check"
      [] name = "get_balance" -> "b_get"
      [] name = "remove_account" -> "r_check"
      [] name = "total_amount" -> "t_sum"
      [] OTHER -> "n_len"

\* with self.lock: at the head of a method
Enter(s) ==
    /\ At(s, "call")
    /\ can_acquire(lock, s)
    /\ lock' = acquire(lock, s)
    /\ Goto(s, FirstStep(op[s].name))
    /\ pre' = [pre EXCEPT ![s] = [taken |-> TRUE, last_account |-> last_account,
                                  accounts |-> accounts, file |-> file]]
    /\ ref' = seq_call(ref, op[s]).st
    /\ expect' = [expect EXCEPT ![s] = seq_call(ref, op[s]).ret]
    /\ UNCHANGED <<ledger, op, tmp, ret, resp, conn, issued, removed, lastSaveOk, loaded, foreign, malformed, applied, acked, delta>>

\* return r inside the with block
Return(s, r) ==
    /\ ret' = [ret EXCEPT ![s] = r]
    /\ Goto(s, "unlock")

\* an exception leaves the with block, which releases the lock, and reaches
\* the except of process_command
Raise(s) ==
    /\ lock' = release(lock)
    /\ resp' = [resp EXCEPT ![s] = ER(ERR_APP)]
    /\ op' = [op EXCEPT ![s] = NoOp]
    /\ pre' = [pre EXCEPT ![s] = NoPre]
    /\ expect' = [expect EXCEPT ![s] = NoRet]
    /\ tmp' = [tmp EXCEPT ![s] = 0]
    /\ Goto(s, "write")
    /\ UNCHANGED <<ledger, ret, conn, issued, removed, ref, lastSaveOk, loaded, foreign, malformed, applied, acked, delta>>

\* the amount an AD or AW response stands for
signed(tag, amount) == IF tag = "AD" THEN amount ELSE IF tag = "AW" THEN 0 - amount ELSE 0

\* the with block ends: the lock is released, the method has returned and
\* process_command builds the response from what it returned
Unlock(s) ==
    /\ At(s, "unlock")
    /\ lock' = release(lock)
    /\ resp' = [resp EXCEPT ![s] = render(op[s], ret[s])]
    /\ delta' = [delta EXCEPT ![s] = signed(render(op[s], ret[s]).tag, op[s].amount)]
    /\ op' = [op EXCEPT ![s] = NoOp]
    /\ ret' = [ret EXCEPT ![s] = NoRet]
    /\ tmp' = [tmp EXCEPT ![s] = 0]
    /\ pre' = [pre EXCEPT ![s] = NoPre]
    /\ expect' = [expect EXCEPT ![s] = NoRet]
    /\ Goto(s, "write")
    /\ UNCHANGED <<ledger, conn, issued, removed, ref, lastSaveOk, loaded, foreign, malformed, applied, acked>>

\* the same, but an exception is raised while the response is built: the
\* except of process_command answers for it. The responses that can raise
\* are those that format a balance or a total (str() of an int beyond the
\* interpreter's digit limit raises ValueError)
Fault(s) ==
    /\ At(s, "unlock")
    /\ op[s].name \in {"get_balance", "total_amount"}
    /\ lock' = release(lock)
    /\ resp' = [resp EXCEPT ![s] = ER(ERR_APP)]
    /\ op' = [op EXCEPT ![s] = NoOp]
    /\ ret' = [ret EXCEPT ![s] = NoRet]
    /\ tmp' = [tmp EXCEPT ![s] = 0]
    /\ pre' = [pre EXCEPT ![s] = NoPre]
    /\ expect' = [expect EXCEPT ![s] = NoRet]
    /\ Goto(s, "write")
    /\ UNCHANGED <<ledger, conn, issued, removed, ref, lastSaveOk, loaded, foreign, malformed, applied, acked, delta>>

\* the ceiling test off by one
at_capacity_late(la) == la > MaxAccount
\* if self.last_account >= 99999
at_capacity(la) == la >= MaxAccount
\* the funds test comparing the wrong way round
insufficient_swapped(balance, amount) == balance > amount
\* if self.accounts[key] < amount
insufficient(balance, amount) == balance < amount
\* the balance test accepting a positive balance
not_empty_negative(balance) == balance < 0
\* if self.accounts[key] != 0
not_empty(balance) == balance # 0
\* = written for +=
credited_overwrites(balance, amount) == amount
\* self.accounts[key] += amount and -= amount: the value stored
credited(balance, amount) == balance + amount
debited(balance, amount) == balance - amount
\* self.accounts[key] = v
put(accts, key, v) == [k \in DOMAIN accts \cup {key} |-> IF k = key THEN v ELSE accts[k]]
\* del self.accounts[key]
del(accts, key) == [k \in DOMAIN accts \ {key} |-> accts[k]]

\* a step that only moves on
Local == UNCHANGED <<ledger, lock, op, resp, conn, ghost>>

\* create_account, line 83
c_check(s) ==
    /\ At(s, "c_check")
    /\ IF at_capacity(last_account)
       THEN Return(s, Ret(TRUE, 0, ERR_CAPACITY))
       ELSE Goto(s, "c_load") /\ ret' = ret
    /\ tmp' = tmp
    /\ Local

\* self.last_account += 1 reads the counter, then stores the sum
c_load(s) ==
    /\ At(s, "c_load")
    /\ tmp' = [tmp EXCEPT ![s] = last_account]
    /\ Goto(s, "c_store")
    /\ ret' = ret
    /\ Local

c_store(s) ==
    /\ At(s, "c_store")
    /\ last_account' = tmp[s] + 1
    /\ Goto(s, "c_put")
    /\ UNCHANGED <<accounts, file, lock, op, tmp, ret, resp, conn, ghost>>

\* account_number = self.last_account; self.accounts[str(account_number)] = 0;
\* then save()
c_put(s) ==
    /\ At(s, "c_put")
    /\ tmp' = [tmp EXCEPT ![s] = last_account]
    /\ accounts' = put(accounts, Str(last_account), 0)
    /\ Goto(s, "s_acq")
    /\ UNCHANGED <<last_account, file, lock, op, ret, resp, conn, ghost>>

\* deposit, withdraw and remove_account: if str(account_number) not in self.accounts
found_check(s, here, next) ==
    /\ At(s, here)
    /\ IF ~HasKey(s)
       THEN Return(s, Ret(TRUE, 0, ERR_NO_ACCOUNT))
       ELSE Goto(s, next) /\ ret' = ret
    /\ tmp' = tmp
    /\ Local

d_check(s) == found_check(s, "d_check", "d_load")
w_check(s) == found_check(s, "w_check", "w_cmp")
r_check(s) == found_check(s, "r_check", "r_cmp")

\* self.accounts[key] += amount and -= amount read the balance, then store
\* the result; reading a key that is gone raises KeyError
balance_load(s, here, next) ==
    /\ At(s, here)
    /\ IF HasKey(s)
       THEN /\ tmp' = [tmp EXCEPT ![s] = accounts[Key(s)]]
            /\ Goto(s, next)
            /\ ret' = ret
            /\ Local
       ELSE Raise(s)

d_load(s) == balance_load(s, "d_load", "d_store")
w_load(s) == balance_load(s, "w_load", "w_store")

d_store(s) ==
    /\ At(s, "d_store")
    /\ accounts' = put(accounts, Key(s), credited(tmp[s], op[s].amount))
    /\ Goto(s, "s_acq")
    /\ UNCHANGED <<last_account, file, lock, op, tmp, ret, resp, conn, ghost>>

\* withdraw, line 106
w_cmp(s) ==
    /\ At(s, "w_cmp")
    /\ IF HasKey(s)
       THEN /\ IF insufficient(accounts[Key(s)], op[s].amount)
               THEN Return(s, Ret(TRUE, 0, ERR_FUNDS))
               ELSE Goto(s, "w_load") /\ ret' = ret
            /\ tmp' = tmp
            /\ Local
       ELSE Raise(s)

w_store(s) ==
    /\ At(s, "w_store")
    /\ accounts' = put(accounts, Key(s), debited(tmp[s], op[s].amount))
    /\ Goto(s, "s_acq")
    /\ UNCHANGED <<last_account, file, lock, op, tmp, ret, resp, conn, ghost>>

\* get_balance goes on to save()
b_get_saves(s) ==
    /\ At(s, "b_get")
    /\ Goto(s, "s_acq")
    /\ ret' = ret
    /\ tmp' = tmp
    /\ Local

\* get_balance
b_get(s) ==
    /\ At(s, "b_get")
    /\ Return(s, get_balance(accounts, op[s].account_number))
    /\ tmp' = tmp
    /\ Local

\* remove_account, line 120
r_cmp(s) ==
    /\ At(s, "r_cmp")
    /\ IF HasKey(s)
       THEN /\ IF not_empty(accounts[Key(s)])
               THEN Return(s, Ret(TRUE, 0, ERR_NOT_EMPTY))
               ELSE Goto(s, "r_del") /\ ret' = ret
            /\ tmp' = tmp
            /\ Local
       ELSE Raise(s)

\* del self.accounts[key], then save()
r_del(s) ==
    /\ At(s, "r_del")
    /\ IF HasKey(s)
       THEN /\ accounts' = del(accounts, Key(s))
            /\ Goto(s, "s_acq")
            /\ UNCHANGED <<last_account, file, lock, op, tmp, ret, resp, conn, ghost>>
       ELSE Raise(s)

\* total_amount and number_of_clients
t_sum(s) ==
    /\ At(s, "t_sum")
    /\ Return(s, Ret(FALSE, total_amount(accounts), ""))
    /\ tmp' = tmp
    /\ Local

n_len(s) ==
    /\ At(s, "n_len")
    /\ Return(s, Ret(FALSE, number_of_clients(accounts), ""))
    /\ tmp' = tmp
    /\ Local

(* ------------------------------- save --------------------------------- *)
\* with self.lock: inside save(), by the thread that holds it
s_acq(s) ==
    /\ At(s, "s_acq")
    /\ can_acquire(lock, s)
    /\ lock' = acquire(lock, s)
    /\ Goto(s, "s_write")
    /\ UNCHANGED <<ledger, op, tmp, ret, resp, conn, ghost>>

\* the counter left out of the saved data
saved_without_counter(la, accts) == json_dump(FirstCounter, accts)
\* what save() writes
saved(la, accts) == json_dump(la, accts)

\* open(.., 'w') and json.dump succeed
s_write(s) ==
    /\ At(s, "s_write")
    /\ file' = saved(last_account, accounts)
    /\ lastSaveOk' = TRUE
    /\ Goto(s, "s_rel")
    /\ UNCHANGED <<last_account, accounts, lock, op, tmp, ret, resp, conn,
                   issued, removed, ref, expect, pre, loaded, foreign, malformed, applied, acked, delta>>

\* open(.., 'w') raises: the file is as it was; the except swallows it
s_open_fails(s) ==
    /\ At(s, "s_write")
    /\ lastSaveOk' = FALSE
    /\ Goto(s, "s_rel")
    /\ UNCHANGED <<ledger, lock, op, tmp, ret, resp, conn,
                   issued, removed, ref, expect, pre, loaded, foreign, malformed, applied, acked, delta>>

\* a failed write undoes the mutation of the method that called save()
s_write_fails_rollback(s) ==
    /\ At(s, "s_write")
    /\ file' = CorruptFile
    /\ lastSaveOk' = FALSE
    /\ last_account' = pre[s].last_account
    /\ accounts' = pre[s].accounts
    /\ Goto(s, "s_rel")
    /\ UNCHANGED <<lock, op, tmp, ret, resp, conn,
                   issued, removed, ref, expect, pre, loaded, foreign, malformed, applied, acked, delta>>
\* the write raises after open truncated the file; the except swallows it
s_write_fails(s) ==
    /\ At(s, "s_write")
    /\ file' = CorruptFile
    /\ lastSaveOk' = FALSE
    /\ Goto(s, "s_rel")
    /\ UNCHANGED <<last_account, accounts, lock, op, tmp, ret, resp, conn,
                   issued, removed, ref, expect, pre, loaded, foreign, malformed, applied, acked, delta>>

\* the with block of save() ends and the method returns account_number, None
\* or None
s_rel(s) ==
    /\ At(s, "s_rel")
    /\ lock' = release(lock)
    /\ IF op[s].name = "create_account"
       THEN /\ Return(s, Ret(FALSE, tmp[s], ""))
            /\ issued' = Append(issued, tmp[s])
            /\ removed' = removed
       ELSE /\ Return(s, NoRet)
            /\ issued' = issued
            /\ removed' = IF op[s].name = "remove_account"
                          THEN removed \cup {op[s].account_number} ELSE removed
    /\ applied' = applied + (IF op[s].name = "deposit" THEN op[s].amount
                             ELSE IF op[s].name = "withdraw" THEN 0 - op[s].amount ELSE 0)
    /\ UNCHANGED <<ledger, op, tmp, resp, conn, ref, expect, pre, lastSaveOk, loaded,
                   foreign, malformed, acked, delta>>

(* ------------------------------- next --------------------------------- *)
Next ==
    \E s \in Sessions :
        \/ \E ln \in Lines : ReadCommand(s, ln)
        \/ ReadEmpty(s)
        \/ ReadEnd(s)
        \/ Enter(s)
        \/ c_check(s) \/ c_load(s) \/ c_store(s) \/ c_put(s)
        \/ d_check(s) \/ d_load(s) \/ d_store(s)
        \/ w_check(s) \/ w_cmp(s) \/ w_load(s) \/ w_store(s)
        \/ b_get(s)
        \/ r_check(s) \/ r_cmp(s) \/ r_del(s)
        \/ t_sum(s) \/ n_len(s)
        \/ s_acq(s) \/ s_write(s) \/ s_open_fails(s) \/ s_write_fails(s) \/ s_rel(s)
        \/ Unlock(s) \/ Fault(s)
        \/ WriteResponse(s) \/ WriteFail(s)

Spec == Init /\ [][Next]_vars

(* ----------------------------- fairness ------------------------------ *)
\* what the thread of connection s does without a new line from the client:
\* it takes the lock when it is free, runs the method, writes the response,
\* and its readline returns nothing or times out
ServerStep(s) ==
    \/ ReadEnd(s)
    \/ Enter(s)
    \/ c_check(s) \/ c_load(s) \/ c_store(s) \/ c_put(s)
    \/ d_check(s) \/ d_load(s) \/ d_store(s)
    \/ w_check(s) \/ w_cmp(s) \/ w_load(s) \/ w_store(s)
    \/ b_get(s)
    \/ r_check(s) \/ r_cmp(s) \/ r_del(s)
    \/ t_sum(s) \/ n_len(s)
    \/ s_acq(s) \/ s_write(s) \/ s_open_fails(s) \/ s_write_fails(s) \/ s_rel(s)
    \/ Unlock(s) \/ Fault(s)
    \/ WriteResponse(s) \/ WriteFail(s)

\* every thread that can run does run (the interpreter switches threads), a
\* released lock is taken by a waiting thread, and the socket timeout set in
\* handle() ends a readline that gets no data
Fair == \A s \in Sessions : WF_vars(ServerStep(s))

\* lines that differ in the steps the threads take: one for each Ledger
\* method, one answered by the dispatcher alone and one it rejects
LiveLines ==
    {Line(v, 0, NoSpec, NanTok) : v \in {"AC", "BA", "BN", "BC", "XY"}}
    \cup {Line("AB", 1, SpecTok(2, NumTok(MinAccount), bank_ip), NanTok),
          Line("AR", 1, SpecTok(2, NumTok(MinAccount + 1), bank_ip), NanTok)}
    \cup {Line(v, 2, SpecTok(2, NumTok(MinAccount), bank_ip), NumTok(1)) : v \in {"AD", "AW"}}

LiveNext ==
    \E s \in Sessions :
        \/ \E ln \in LiveLines : ReadCommand(s, ln)
        \/ ReadEmpty(s)
        \/ ServerStep(s)

LiveSpec == Init /\ [][LiveNext]_vars /\ Fair

(* ------------------------------ claims -------------------------------- *)
\* the steps a thread takes between the with of a method and its end
LedgerSteps ==
    {"c_check", "c_load", "c_store", "c_put", "d_check", "d_load", "d_store",
     "w_check", "w_cmp", "w_load", "w_store", "b_get", "r_check", "r_cmp", "r_del",
     "t_sum", "n_len", "s_acq", "s_write", "s_rel", "unlock"}
InLedger(s) == pc[s] \in LedgerSteps
\* thread s has run method name to its return and still holds the lock
Returned(s, name) == pc[s] = "unlock" /\ op[s].name = name /\ pre[s].taken
\* method name found the account it names when it took the lock
Found(s) == Str(op[s].account_number) \in DOMAIN pre[s].accounts
BalanceBefore(s) == pre[s].accounts[Str(op[s].account_number)]
Untouched(s) == accounts = pre[s].accounts /\ last_account = pre[s].last_account
Failed(s, err) == ret[s] = Ret(TRUE, 0, err)
Succeeded(s) == ret[s] = NoRet

\* C1: the account numbers create_account returns, in the order the calls
\* take the lock, start one above the loaded counter (10000 for an empty
\* ledger), go up by one, never repeat, and lie in 10000..99999; a
\* create_account that finds the counter at 99999 returns the capacity error
\* and leaves the counter and the accounts as they were.
C1_AccountNumbers ==
    /\ \A i \in 1..Len(issued) : issued[i] \in MinAccount..MaxAccount
    /\ \A i \in 1..Len(issued) : issued[i] = loaded.last_account + i
    /\ \A i, j \in 1..Len(issued) : i # j => issued[i] # issued[j]
    /\ loaded.last_account = FirstCounter /\ Len(issued) > 0 => issued[1] = MinAccount
    /\ \A s \in Sessions :
          Returned(s, "create_account") =>
              IF pre[s].last_account >= MaxAccount
              THEN Failed(s, ERR_CAPACITY) /\ Untouched(s)
              ELSE ret[s] = Ret(FALSE, pre[s].last_account + 1, "")

\* a create_account is refused at the ceiling after another one got the last number
C1_Witness ==
    /\ issued = <<MaxAccount>>
    /\ \E s \in Sessions : Returned(s, "create_account") /\ Failed(s, ERR_CAPACITY)

\* C2: every balance in the accounts dict is an integer >= 0, in every state.
C2_BalancesNonNegative ==
    \A k \in DOMAIN accounts : accounts[k] \in Nat

\* a withdraw of more than the balance has been refused and a deposit made
C2_Witness ==
    /\ \E s \in Sessions : Returned(s, "withdraw") /\ Failed(s, ERR_FUNDS)
    /\ \E k \in DOMAIN accounts : accounts[k] > 0

\* C3: withdraw(n, a) on an account that exists, a >= 0: with a > balance it
\* returns the funds error and nothing changes; otherwise it returns None and
\* the balance of n is the one before minus a; the other accounts and the
\* counter are as before in both cases.
C3_Withdraw ==
    \A s \in Sessions :
        Returned(s, "withdraw") /\ Found(s) /\ op[s].amount >= 0 =>
            IF op[s].amount > BalanceBefore(s)
            THEN Failed(s, ERR_FUNDS) /\ Untouched(s)
            ELSE /\ Succeeded(s)
                 /\ accounts = [pre[s].accounts EXCEPT
                                   ![Str(op[s].account_number)] = @ - op[s].amount]
                 /\ last_account = pre[s].last_account

\* a withdraw of the whole balance succeeded beside a second account
C3_Witness ==
    \E s \in Sessions :
        /\ Returned(s, "withdraw") /\ Found(s) /\ Succeeded(s)
        /\ op[s].amount = 1 /\ BalanceBefore(s) = 1
        /\ Cardinality(DOMAIN accounts) >= 2

\* C4: deposit(n, a) on an account that exists returns None, get_balance(n)
\* on the state it leaves returns the balance before plus a, and the other
\* accounts and the counter are as before.
C4_Deposit ==
    \A s \in Sessions :
        Returned(s, "deposit") /\ Found(s) =>
            /\ Succeeded(s)
            /\ get_balance(accounts, op[s].account_number)
                   = Ret(FALSE, BalanceBefore(s) + op[s].amount, "")
            /\ DOMAIN accounts = DOMAIN pre[s].accounts
            /\ \A k \in DOMAIN accounts :
                  k # Str(op[s].account_number) => accounts[k] = pre[s].accounts[k]
            /\ last_account = pre[s].last_account

\* a deposit of 1 on a balance of 1 returned beside a second account
C4_Witness ==
    \E s \in Sessions :
        /\ Returned(s, "deposit") /\ Found(s)
        /\ op[s].amount = 1 /\ BalanceBefore(s) = 1
        /\ Cardinality(DOMAIN accounts) >= 2

\* C5: remove_account(n) on an account that exists returns None and deletes
\* it exactly when its balance is 0, and returns the balance error and keeps
\* everything otherwise; once n is removed it stays absent, every deposit,
\* withdraw, get_balance and remove_account on n reports that it does not
\* exist, and create_account never returns n.
C5_Remove ==
    /\ \A s \in Sessions :
          Returned(s, "remove_account") /\ Found(s) =>
              IF BalanceBefore(s) = 0
              THEN /\ Succeeded(s)
                   /\ accounts = [k \in DOMAIN pre[s].accounts \ {Str(op[s].account_number)}
                                      |-> pre[s].accounts[k]]
                   /\ last_account = pre[s].last_account
              ELSE Failed(s, ERR_NOT_EMPTY) /\ Untouched(s)
    /\ \A n \in removed : Str(n) \notin DOMAIN accounts
    /\ \A s \in Sessions :
          pc[s] = "unlock" /\ pre[s].taken /\ op[s].account_number \in removed /\ ~Found(s) =>
              CASE op[s].name \in {"deposit", "withdraw", "remove_account"} ->
                       Failed(s, ERR_NO_ACCOUNT) /\ Untouched(s)
                [] op[s].name = "get_balance" -> ret[s] = NoRet /\ Untouched(s)
                [] OTHER -> TRUE
    /\ \A s \in Sessions :
          Returned(s, "create_account") /\ ret[s].err = "" => ret[s].val \notin removed

\* a balance query on a removed account has found nothing
C5_Witness ==
    \E s \in Sessions :
        /\ Returned(s, "get_balance") /\ ~Found(s)
        /\ op[s].account_number \in removed
        /\ ret[s] = NoRet

NoOpInProgress == \A s \in Sessions : ~InLedger(s)

\* C6: when no Ledger method is running and the last save() did not fail,
\* load() of the file gives the counter and the accounts, keys and balances,
\* that are in memory.
C6_RoundTrip ==
    NoOpInProgress /\ lastSaveOk => load(file) = Ledger(last_account, accounts)

\* an empty ledger has saved a new account and a deposit on it
C6_Witness ==
    /\ NoOpInProgress /\ lastSaveOk
    /\ loaded.last_account = FirstCounter
    /\ file.kind = "json"
    /\ issued = <<MinAccount>>
    /\ accounts[Str(MinAccount)] = 1

\* C7: no two threads are inside a Ledger method, save() included, at the
\* same time, and the thread that is inside holds the lock.
C7_MutualExclusion ==
    /\ \A s1, s2 \in Sessions : s1 # s2 => ~(InLedger(s1) /\ InLedger(s2))
    /\ \A s \in Sessions : InLedger(s) => lock.owner = s /\ lock.count >= 1

\* one thread writes the file inside save(), holding the lock twice, while
\* another waits to enter a method
C7_Witness ==
    \E s1, s2 \in Sessions :
        /\ pc[s1] = "s_write" /\ lock = [owner |-> s1, count |-> 2]
        /\ pc[s2] = "call"

\* C8: the methods return what the sequential ledger returns when it runs
\* the same calls one at a time in the order they took the lock, and between
\* calls the ledger is in the state of the sequential one.
C8_Linearizable ==
    /\ \A s \in Sessions : pc[s] = "unlock" => ret[s] = expect[s]
    /\ NoOpInProgress => ref = Ledger(last_account, accounts)

\* a total is returned that counts a deposit made on the loaded ledger
C8_Witness ==
    \E s \in Sessions :
        /\ Returned(s, "total_amount")
        /\ ret[s] = Ret(FALSE, 2, "")
        /\ loaded.accounts # EmptyAccounts

\* C9: on a connection that reads its next line every command read so far
\* has one response, written in the order of the commands; while a command is
\* handled exactly that one is unanswered, and what is written for it is a
\* response line, the application error when an exception was caught.
C9_OneResponsePerCommand ==
    \A s \in Sessions :
        /\ pc[s] = "read" => out[s] = [i \in 1..ncmd[s] |-> i]
        /\ pc[s] \notin {"read", "closed"} => out[s] = [i \in 1..(ncmd[s] - 1) |-> i]
        /\ pc[s] = "write" => resp[s].tag \in {"ER", "BC", "AC", "AD", "AW", "AB", "AR", "BA", "BN"}
        /\ pc[s] # "write" => resp[s] = NoResp

\* the second command of a connection raised and is answered with the
\* application error, the first one has its response
C9_Witness ==
    \E s \in Sessions :
        /\ pc[s] = "write" /\ resp[s] = ER(ERR_APP)
        /\ ncmd[s] = 2 /\ out[s] = <<1>>

\* C10: a command that is AD, AW, AB or AR with a well-formed account spec
\* of another address is answered with the bank error and makes no Ledger
\* call, whether or not the account exists here and whatever its amount
\* token: its thread never takes the lock nor runs a step of a method, the
\* only steps that change the accounts, the counter or the file.
C10_ForeignBank ==
    \A s \in Sessions :
        foreign[s] =>
            /\ pc[s] = "write" /\ resp[s] = ER(ERR_BANK)
            /\ op[s] = NoOp /\ ~pre[s].taken /\ lock.owner # s

\* the bank error is about to be sent while the account exists here
C10_Witness ==
    \E s \in Sessions :
        /\ foreign[s] /\ pc[s] = "write" /\ resp[s] = ER(ERR_BANK)
        /\ Str(MinAccount) \in DOMAIN accounts

\* C11: a command with one of the eight verbs and the wrong number of
\* tokens, an account spec that is not number/ip with the number in
\* 10000..99999 and a dotted quad of octets 0..255, or (AD, AW) an amount
\* that is not a number or is negative, is answered with ER and makes no
\* Ledger call: its thread never takes the lock nor runs a step of a
\* method, the only steps that change the accounts, the counter or the file.
C11_FormatError ==
    \A s \in Sessions :
        malformed[s] =>
            /\ pc[s] = "write" /\ resp[s].tag = "ER"
            /\ op[s] = NoOp /\ ~pre[s].taken /\ lock.owner # s

\* the account format error is about to be sent while another thread is
\* inside a Ledger method
C11_Witness ==
    \E s, t \in Sessions :
        /\ malformed[s] /\ pc[s] = "write" /\ resp[s] = ER(ERR_ACCOUNT_FORMAT)
        /\ t # s /\ lock.owner = t

\* what the method thread s runs does to the ledger it found, run alone
Alone(s) == seq_call(Ledger(pre[s].last_account, pre[s].accounts), op[s])
Mutators == {"create_account", "deposit", "withdraw", "remove_account"}

\* C12: when the save() of a create_account, deposit, withdraw or
\* remove_account that passed its tests fails (open or the write raises),
\* the accounts and the counter keep the mutation, the method returns
\* success, and once no method is running the ledger is the one all the
\* calls so far produce, the one whose save failed included.
C12_SaveFailureKeepsMutation ==
    /\ \A s \in Sessions :
          (/\ pc[s] \in {"s_rel", "unlock"} /\ pre[s].taken /\ ~lastSaveOk
           /\ op[s].name \in Mutators /\ Alone(s).ret.err = "")
          => /\ Ledger(last_account, accounts) = Alone(s).st
             /\ pc[s] = "unlock" => ret[s] = Alone(s).ret
    /\ (~lastSaveOk /\ \A s \in Sessions : ~InLedger(s))
          => Ledger(last_account, accounts) = ref

\* a deposit of 1 returns success with the balance raised while the file is
\* left cut short by the failed write
C12_Witness ==
    \E s \in Sessions :
        /\ Returned(s, "deposit") /\ Succeeded(s) /\ Found(s)
        /\ ~lastSaveOk /\ file = CorruptFile
        /\ op[s].amount = 1
        /\ accounts[Str(op[s].account_number)] = BalanceBefore(s) + 1

\* the numbers a key of this run can stand for: those of the loaded file and
\* those the counter can have reached
Numbers == AccountNumbers \cup {loaded.last_account + i : i \in 0..MaxLines}
\* every key of st is the text of a number in 10000..counter
InRange(st) ==
    \A k \in DOMAIN st.accounts :
        \E n \in Numbers : k = Str(n) /\ MinAccount <= n /\ n <= st.last_account
\* the threads whose create_account has raised the counter and not returned
Creating == {s \in Sessions : op[s].name = "create_account"
                              /\ pc[s] \in {"c_put", "s_acq", "s_write", "s_rel"}}

\* C13: in every state every key of the accounts is a number in
\* 10000..counter that was in the loaded file or was issued by a
\* create_account of this run (one that has not returned yet included), and
\* the same range holds of the ledger that load() builds from the file as it
\* is now, so of every ledger constructed from a file this node saved; the
\* counter is the loaded one plus the number of increments made, so it never
\* decreases; a create_account that returns a number returns one that was
\* not a key and leaves every balance that was there as it was.
C13_KeysIssuedAndInRange ==
    /\ InRange(Ledger(last_account, accounts))
    /\ InRange(load(file))
    /\ \A k \in DOMAIN accounts :
          \/ k \in DOMAIN loaded.accounts
          \/ \E i \in 1..Len(issued) : k = Str(issued[i])
          \/ \E s \in Creating : k = Str(tmp[s])
    /\ last_account = loaded.last_account + Len(issued) + Cardinality(Creating)
    /\ \A s \in Sessions :
          Returned(s, "create_account") /\ ~ret[s].none
          => /\ Str(ret[s].val) \notin DOMAIN pre[s].accounts
             /\ Str(ret[s].val) \in DOMAIN accounts
             /\ \A k \in DOMAIN pre[s].accounts :
                   k \in DOMAIN accounts /\ accounts[k] = pre[s].accounts[k]

\* a ledger constructed from a saved file with two accounts has issued the
\* next number as a third key
C13_Witness ==
    \E s \in Sessions :
        /\ Returned(s, "create_account") /\ ret[s] = Ret(FALSE, MaxAccount, "")
        /\ loaded.accounts # EmptyAccounts
        /\ Cardinality(DOMAIN accounts) = Cardinality(DOMAIN loaded.accounts) + 1

\* the balances as a bag of units, one copy of a key per unit of its balance:
\* the size of the bag is the sum of the balances
Units(accts) == [k \in {x \in DOMAIN accts : accts[x] > 0} |-> accts[k]]

\* C14: what total_amount returns is the sum of the balances and what
\* number_of_clients returns is the number of accounts, both of the accounts
\* as they are when the method returns, which are the accounts the method
\* found when it took the lock: no other thread has changed them in between,
\* whatever the interleaving.
C14_Totals ==
    \A s \in Sessions :
        /\ Returned(s, "total_amount")
           => /\ ret[s] = Ret(FALSE, BagCardinality(Units(accounts)), "")
              /\ accounts = pre[s].accounts
        /\ Returned(s, "number_of_clients")
           => /\ ret[s] = Ret(FALSE, Cardinality(DOMAIN accounts), "")
              /\ accounts = pre[s].accounts

\* the total of the loaded accounts is returned while another thread waits
\* for the lock with a deposit
C14_Witness ==
    \E s, t \in Sessions :
        /\ Returned(s, "total_amount") /\ ret[s].val = 1
        /\ pc[t] = "call" /\ op[t].name = "deposit" /\ op[t].amount = 1

\* the node found no file or an unparsable one when it was constructed: the
\* file is still missing (no save has written it), or it is unparsable and no
\* save has run yet
StartedFresh == file.kind = "missing" \/ (file.kind = "corrupt" /\ lastSaveOk)

\* C15: a node constructed with no file or with an unparsable file runs, with
\* the counter at 9999 and no accounts as the ledger load() left, and the
\* first create_account gets the number 10000.
C15_FreshStart ==
    StartedFresh =>
        /\ loaded = Ledger(FirstCounter, EmptyAccounts)
        /\ Len(issued) > 0 => issued[1] = MinAccount
        /\ \A s \in Sessions :
              /\ (s \in Creating /\ pc[s] # "c_put" /\ issued = <<>>)
                 => tmp[s] = MinAccount
              /\ (Returned(s, "create_account") /\ Len(issued) = 1)
                 => ret[s] = Ret(FALSE, MinAccount, "")
        /\ (issued = <<>> /\ \A s \in Sessions : ~InLedger(s))
           => last_account = FirstCounter /\ accounts = EmptyAccounts

\* a node that started on an unparsable file is about to save its first
\* account, 10000
C15_Witness ==
    \E s \in Sessions :
        /\ file = CorruptFile /\ lastSaveOk
        /\ pc[s] = "s_write" /\ op[s].name = "create_account"
        /\ tmp[s] = MinAccount /\ Str(MinAccount) \in DOMAIN accounts

\* C16: a connection is closed only by the step of a readline that returns
\* nothing, times out or does not decode, or by the step of a write that
\* raises, and that step writes no response; a closed connection stays
\* closed; and once the clients send nothing more, every connection that
\* waits for a line is closed in the end (the socket timeout).
C16_SessionCloses ==
    /\ [][\A s \in Sessions :
            /\ (pc[s] # "closed" /\ pc'[s] = "closed")
               => /\ ReadEnd(s) \/ WriteFail(s)
                  /\ out'[s] # sent(out[s], ncmd[s])
            /\ pc[s] = "closed" => pc'[s] = "closed"]_vars
    /\ \A s \in Sessions : (nlines = MaxLines /\ pc[s] = "read") ~> (pc[s] = "closed")

\* after the last line one connection has been closed and the other still
\* waits for a line that will not come
C16_Witness ==
    \E s, t \in Sessions :
        /\ pc[s] = "closed" /\ pc[t] = "read"
        /\ nlines = MaxLines /\ issued # <<>>

\* C17: the step that reads a line that is empty after strip leaves the
\* thread reading with no response to write, writes nothing to the
\* connection, and leaves the accounts, the counter, the file and the lock
\* as they were; no response is ever the empty-command error of
\* process_command, which no line reaches.
C17_EmptyLineIgnored ==
    /\ [][\A s \in Sessions :
            ReadEmpty(s)
            => /\ pc'[s] = "read" /\ resp'[s] = NoResp /\ op'[s] = NoOp
               /\ out'[s] = out[s] /\ ncmd'[s] = ncmd[s]
               /\ UNCHANGED <<ledger, lock>>]_vars
    /\ [](\A s \in Sessions : resp[s] # ER(ERR_EMPTY))

\* one line has been read, no connection has read a command and none is
\* closed: the line was empty, and both connections wait for the next one
C17_Witness ==
    /\ nlines = 1
    /\ \A s \in Sessions : pc[s] = "read" /\ ncmd[s] = 0 /\ out[s] = <<>>

Readers == {"get_balance", "total_amount", "number_of_clients"}

\* C18: when get_balance, total_amount or number_of_clients returns, and
\* when any method returns an error (no such account, insufficient funds,
\* balance not zero, no number left), the accounts, the counter and the file
\* are exactly those the method found when it took the lock; so a method
\* that leaves any of them changed is a create_account, deposit, withdraw
\* or remove_account that returns success.
C18_Frame ==
    \A s \in Sessions :
        /\ (pc[s] = "unlock" /\ pre[s].taken
                /\ (op[s].name \in Readers \/ ret[s].err # ""))
           => Untouched(s) /\ file = pre[s].file
        /\ (pc[s] = "unlock" /\ pre[s].taken
                /\ ~(Untouched(s) /\ file = pre[s].file))
           => op[s].name \in Mutators /\ ret[s].err = ""

\* a withdraw returns the funds error and leaves a file that an earlier
\* failed save left behind the accounts
C18_Witness ==
    \E s \in Sessions :
        /\ Returned(s, "withdraw") /\ Failed(s, ERR_FUNDS)
        /\ file # json_dump(last_account, accounts)
        /\ Untouched(s) /\ file = pre[s].file

\* C19: the thread that reaches the with of save() holds the lock and takes
\* it again; a thread that is outside the Ledger methods does not hold the
\* lock, whichever way it left the method, and the lock is free when no
\* thread is inside; and when every thread that can run does run, a thread
\* that waits for the lock gets it and a command that calls a Ledger method
\* gets its response.
C19_LockProgress ==
    /\ [](\A s \in Sessions :
            /\ pc[s] = "s_acq" => lock.owner = s /\ lock.count = 1
            /\ pc[s] \in {"s_write", "s_rel"} => lock.owner = s /\ lock.count = 2
            /\ ~InLedger(s) => lock.owner # s)
    /\ []((\A s \in Sessions : ~InLedger(s)) => lock = FreeLock)
    /\ \A s \in Sessions : (pc[s] = "call") ~> (lock.owner = s)
    /\ \A s \in Sessions : (pc[s] = "call") ~> (pc[s] = "write")

\* a thread waits for the lock while the other one holds it twice, inside
\* the save() of a deposit
C19_Witness ==
    \E s, t \in Sessions :
        /\ pc[s] = "call"
        /\ lock = [owner |-> t, count |-> 2] /\ pc[t] = "s_write"
        /\ op[t].name = "deposit"

\* C20 as stated: for a ledger that starts empty the sum of the balances is,
\* in every state, the sum of the amounts of the AD commands answered with
\* AD less that of the AW commands answered with AW.
C20_AnsweredSum ==
    loaded.accounts = EmptyAccounts => BagCardinality(Units(accounts)) = acked

\* C20: no update is lost: whenever no thread is inside a Ledger method, the
\* sum of the balances is the sum the ledger was loaded with (0 for a ledger
\* that starts empty) plus the amounts of the deposit calls that returned
\* success less the amounts of the withdraw calls that returned success,
\* whatever the interleaving and whether or not the responses were written.
C20_NoLostUpdate ==
    (\A s \in Sessions : ~InLedger(s))
    => BagCardinality(Units(accounts)) = BagCardinality(Units(loaded.accounts)) + applied

\* two connections have each deposited 1 on the same account and both
\* deposits are in its balance
C20_Witness ==
    /\ \A s \in Sessions : pc[s] \in {"write", "read"} /\ ncmd[s] = 1
    /\ applied = 2
    /\ \E k \in DOMAIN loaded.accounts :
          k \in DOMAIN accounts /\ accounts[k] = loaded.accounts[k] + 2

=============================================================================
